---------------------------- MODULE Spec2Model ----------------------------
(***************************************************************************)
(* State-machine model of the YOLO vegetable detection service:            *)
(*   src/yolo_detector.py  the shared YOLODetector and its load_model /    *)
(*                         detect_objects methods                          *)
(*   src/main.py           the FastAPI handlers POST /yolo-detect and      *)
(*                         POST /upload-image and the __main__ start-up    *)
(*   src/start_server.py   the second entry point (no initialize_yolo)     *)
(*                                                                         *)
(* Abstractions.  A request body is a record holding its length, its first *)
(* two bytes, its last two bytes and the identity of what lies between     *)
(* (img: 0 when cv2.imdecode returns None, otherwise the decoded image).   *)
(* Two bodies are the same byte string exactly when the records are equal. *)
(* The model file best.pt is one of four kinds of artifact.  Time is a     *)
(* counter of clock ticks, TicksPerSecond of them to a second.  Model      *)
(* coordinates are counted in quarters of a pixel, confidences in 1/10000. *)
(***************************************************************************)
EXTENDS Integers, Sequences, FiniteSets, TLC

\* ------------------------------------------------------------------ bounds
\* Last clock tick the model lets datetime.now() reach.
MaxClock == 2

\* Clock ticks per wall-clock second (strftime("%Y%m%d_%H%M%S") drops them).
TicksPerSecond == 2

\* -------------------------------------------------------- program constants
MinImageSize == 1000
MaxDetectSize == 10 * 1024 * 1024
MaxUploadSize == 5 * 1024 * 1024

SOI == <<255, 216>>
EOI == <<255, 217>>

\* None for last_load_attempt / last_attempt
NoTime == -1
\* None for load_error and for absent response fields that hold strings
None == "None"

\* The request slots the framework serves at once, and the main thread.
Req == {"r1", "r2"}
Main == "main"
Proc == Req \cup {Main}

\* What best.pt can be: missing, not a loadable model, a model that loads but
\* cannot run an inference, a working model.
FileKinds == {"absent", "unparsable", "broken", "good"}

VARIABLES
    yolo_detector,    \* the module-level YOLODetector instance
    best_pt,          \* the model artifact on disk
    now,              \* the wall clock, in ticks
    received_images,  \* the upload directory: file name -> content
    pc,               \* where the main thread and each request handler stand
    req,              \* each request's body, the handler's locals, its response
    loop              \* the coroutine the event loop is running, or None

vars == <<yolo_detector, best_pt, now, received_images, pc, req, loop>>


\* ------------------------------------------------------- YOLODetector state
\* YOLODetector.__init__
NewDetector ==
    [model |-> None, model_loaded |-> FALSE,
     last_load_attempt |-> NoTime, load_error |-> None]

\* The frame of a load_model call: what os.path.exists answered, and the
\* value the call returned to its caller ("unset" until it has).
NoFrame == [exists |-> "unset", ret |-> "unset"]

Bool(b) == IF b THEN "True" ELSE "False"

\* (faulty variant: the attempt is not recorded)
LoadStampForgotten(d, t) == d
\* load_model: self.last_load_attempt = datetime.now()
LoadStamp(d, t) == [d EXCEPT !.last_load_attempt = t]

\* load_model: the file is missing; self.load_error = "... not found in ..."
LoadNotFound(d) == [d EXCEPT !.load_error = "YOLO model file 'best.pt' not found"]

\* load_model: self.model = YOLO(model_path)
LoadAssign(d, artifact) == [d EXCEPT !.model = artifact]

\* load_model: except Exception as e: self.load_error = "Error loading ..."
LoadFailed(d, e) == [d EXCEPT !.load_error = "Error loading YOLO model: " \o e]

\* load_model: self.model_loaded = True
LoadMark(d) == [d EXCEPT !.model_loaded = TRUE]

\* load_model: self.load_error = None
LoadClear(d) == [d EXCEPT !.load_error = None]

\* ------------------------------------------------------------ event loop
\* Suspends: the places where a handler coroutine is not on the event loop: before the
\* framework has started it, at its one await (request.body()), and after it
\* has returned.  Everything between runs without yielding.
\* (faulty variant: a handler run on a worker thread can be preempted anywhere)
SuspendsThreaded(c) == TRUE
Suspends(c) == c \in {"idle", "start", "await_body", "done"}

LoadPcs == {"l_stamp", "l_exists", "l_model", "l_smoke", "l_mark", "l_clear"}

\* p may take its next step: the main thread runs alone before the server
\* starts; a handler runs when it holds the loop, or is resumed by an idle loop.
CanRun(p) ==
    IF p = Main THEN pc[Main] # "serving"
    ELSE /\ pc[Main] = "serving"
         /\ \/ loop = p
            \/ loop = None /\ Suspends(pc[p])

\* Who holds the loop after p has moved to c.
LoopAfter(p, c) ==
    IF p = Main THEN loop
    ELSE IF Suspends(c) THEN None ELSE p

Goto(p, c) ==
    /\ pc' = [pc EXCEPT ![p] = c]
    /\ loop' = LoopAfter(p, c)

\* ------------------------------------------------- load_model, step by step
\* model_path = model_path or "best.pt"; self.last_load_attempt = datetime.now()
LoadBegin(p) ==
    /\ pc[p] = "l_stamp"
    /\ CanRun(p)
    /\ yolo_detector' = LoadStamp(yolo_detector, now)
    /\ Goto(p, "l_exists")
    /\ UNCHANGED <<best_pt, now, received_images, req>>

\* if not os.path.exists(model_path): ... return False
LoadExists(p) ==
    /\ pc[p] = "l_exists"
    /\ CanRun(p)
    /\ IF best_pt = "absent"
       THEN /\ yolo_detector' = LoadNotFound(yolo_detector)
            /\ req' = [req EXCEPT ![p].frame = [exists |-> "False", ret |-> "False"]]
            /\ Goto(p, "returned")
       ELSE /\ yolo_detector' = yolo_detector
            /\ req' = [req EXCEPT ![p].frame.exists = "True"]
            /\ Goto(p, "l_model")
    /\ UNCHANGED <<best_pt, now, received_images>>

\* self.model = YOLO(model_path); YOLO raises when the file has gone since the
\* existence check or is no model, and the except branch returns False
LoadConstruct(p) ==
    /\ pc[p] = "l_model"
    /\ CanRun(p)
    /\ IF best_pt \in {"absent", "unparsable"}
       THEN /\ yolo_detector' = LoadFailed(yolo_detector, best_pt)
            /\ req' = [req EXCEPT ![p].frame.ret = "False"]
            /\ Goto(p, "returned")
       ELSE /\ yolo_detector' = LoadAssign(yolo_detector, best_pt)
            /\ req' = req
            /\ Goto(p, "l_smoke")
    /\ UNCHANGED <<best_pt, now, received_images>>

\* test_results = self.model(dummy_image, verbose=False)
LoadSmoke(p) ==
    /\ pc[p] = "l_smoke"
    /\ CanRun(p)
    /\ IF yolo_detector.model # "good"
       THEN /\ yolo_detector' = LoadFailed(yolo_detector, "inference")
            /\ req' = [req EXCEPT ![p].frame.ret = "False"]
            /\ Goto(p, "returned")
       ELSE /\ yolo_detector' = yolo_detector
            /\ req' = req
            /\ Goto(p, "l_mark")
    /\ UNCHANGED <<best_pt, now, received_images>>

\* self.model_loaded = True
LoadLoaded(p) ==
    /\ pc[p] = "l_mark"
    /\ CanRun(p)
    /\ yolo_detector' = LoadMark(yolo_detector)
    /\ Goto(p, "l_clear")
    /\ UNCHANGED <<best_pt, now, received_images, req>>

\* self.load_error = None; ...; return True
LoadDone(p) ==
    /\ pc[p] = "l_clear"
    /\ CanRun(p)
    /\ yolo_detector' = LoadClear(yolo_detector)
    /\ req' = [req EXCEPT ![p].frame.ret = "True"]
    /\ Goto(p, "returned")
    /\ UNCHANGED <<best_pt, now, received_images>>

LoadStep(p) ==
    \/ LoadBegin(p)
    \/ LoadExists(p)
    \/ LoadConstruct(p)
    \/ LoadSmoke(p)
    \/ LoadLoaded(p)
    \/ LoadDone(p)

\* ------------------------------------------------------------ environment
\* The clock advances.
Tick ==
    /\ now < MaxClock
    /\ now' = now + 1
    /\ UNCHANGED <<yolo_detector, best_pt, received_images, pc, req, loop>>

\* Somebody replaces, removes or repairs best.pt.
FileChange ==
    /\ \E k \in FileKinds \ {best_pt} : best_pt' = k
    /\ UNCHANGED <<yolo_detector, now, received_images, pc, req, loop>>


\* --------------------------------------------------------- request bodies
Body(n, h, t, i) == [len |-> n, head |-> h, tail |-> t, img |-> i]

\* The bodies a client sends: below the minimum with and without the JPEG
\* markers, at the minimum (two different pictures, and one cv2 cannot decode),
\* with a wrong first or last marker, and above each endpoint's maximum.
Bodies ==
    { Body(10, <<0, 0>>, <<0, 0>>, 0),
      Body(MinImageSize - 1, SOI, EOI, 1),
      Body(MinImageSize, SOI, EOI, 1),
      Body(MinImageSize, SOI, EOI, 2),
      Body(MinImageSize, SOI, EOI, 0),
      Body(2000, <<137, 80>>, EOI, 0),
      Body(2000, SOI, <<0, 0>>, 0),
      Body(MaxUploadSize + 1, SOI, EOI, 1),
      Body(MaxDetectSize + 1, <<137, 80>>, <<0, 0>>, 0) }

\* (faulty variant: the threshold is one byte low)
TooSmallOffByOne(image_data) == image_data.len < MinImageSize - 1
\* len(image_data) < 1000
TooSmall(image_data) == image_data.len < MinImageSize

\* len(image_data) > limit
TooLarge(image_data, limit) == image_data.len > limit

\* (faulty variant: one marker is enough)
IsJpegEitherMarker(image_data) ==
    \/ image_data.len >= 2 /\ image_data.head = SOI
    \/ image_data.len >= 2 /\ image_data.tail = EOI
\* image_data.startswith(b'\xff\xd8') and image_data.endswith(b'\xff\xd9')
IsJpeg(image_data) ==
    /\ image_data.len >= 2 /\ image_data.head = SOI
    /\ image_data.len >= 2 /\ image_data.tail = EOI

\* ------------------------------------------------------------- rounding
\* Python's round(): n/d to the nearest integer, ties to the even one.
RoundHalfEven(n, d) ==
    LET q == n \div d
        r == n % d
    IN  IF 2 * r < d THEN q
        ELSE IF 2 * r > d THEN q + 1
        ELSE IF q % 2 = 0 THEN q ELSE q + 1

\* round(x) of a coordinate given in quarter pixels
RoundPx(x) == RoundHalfEven(x, 4)

\* round(confidence * 100, 1), in tenths of a percent, of a confidence in 1/10000
RoundConf(c) == RoundHalfEven(c, 10)

\* (faulty variant: the corners are added)
BoxExtentSum(lo, hi) == RoundPx(hi + lo)
\* "width": round(x2 - x1) and "height": round(y2 - y1), from the raw corners
BoxExtent(lo, hi) == RoundPx(hi - lo)

\* ---------------------------------------------------------- model output
\* self.model.names of the loaded model
Names == (0 :> "carrot") @@ (1 :> "tomato")

\* self.model.names[class_id] if class_id in self.model.names else f"class_{class_id}"
ClassName(class_id) ==
    IF class_id \in DOMAIN Names THEN Names[class_id]
    ELSE "class_" \o ToString(class_id)

Box(c, k, x1, y1, x2, y2) == [conf |-> c, cls |-> k, xyxy |-> <<x1, y1, x2, y2>>]

\* One element of the list the model returns: result.boxes is None, or boxes.
Result(isNone, boxes) == [none |-> isNone, boxes |-> boxes]

Output(raises, results) == [raises |-> raises, results |-> results]

\* What self.model(img, conf=0.3) may do on a decoded image: raise, or return
\* results holding no box (boxes None, or empty), or boxes whose corners fall
\* on and between pixel boundaries.
ModelOutputs ==
    { Output(TRUE, <<>>),
      Output(FALSE, << Result(TRUE, <<>>) >>),
      Output(FALSE, << Result(FALSE, << Box(8734, 0, 2, 4, 6, 11),
                                       Box(3001, 7, 1, 3, 3, 5) >>) >>),
      Output(FALSE, << Result(FALSE, << Box(9999, 1, 40, 40, 80, 82) >>),
                       Result(TRUE, <<>>),
                       Result(FALSE, <<>>) >>) }

\* img.shape of a decoded picture
ImageDimensions(img) == [width |-> 640 * img, height |-> 480 * img]

\* detection_info for one box
DetectionInfo(box) ==
    [object |-> ClassName(box.cls),
     confidence |-> RoundConf(box.conf),
     bounding_box |->
        [x1 |-> RoundPx(box.xyxy[1]),
         y1 |-> RoundPx(box.xyxy[2]),
         x2 |-> RoundPx(box.xyxy[3]),
         y2 |-> RoundPx(box.xyxy[4]),
         width |-> BoxExtent(box.xyxy[1], box.xyxy[3]),
         height |-> BoxExtent(box.xyxy[2], box.xyxy[4])]]

\* for box in result.boxes: detections.append(...); total_objects += 1
RECURSIVE ForBoxes(_, _, _)
ForBoxes(acc, boxes, i) ==
    IF i > Len(boxes) THEN acc
    ELSE ForBoxes([detections |-> Append(acc.detections, DetectionInfo(boxes[i])),
                   total_objects |-> acc.total_objects + 1],
                  boxes, i + 1)

\* (faulty variant: total_objects is bumped once per result, not per box)
RECURSIVE ForResultsCountingResults(_, _, _)
ForResultsCountingResults(acc, results, i) ==
    IF i > Len(results) THEN acc
    ELSE ForResultsCountingResults(
            IF results[i].none THEN acc
            ELSE [detections |-> ForBoxes(acc, results[i].boxes, 1).detections,
                  total_objects |-> acc.total_objects + 1],
            results, i + 1)
\* for result in results: if result.boxes is not None: for box in ...
RECURSIVE ForResults(_, _, _)
ForResults(acc, results, i) ==
    IF i > Len(results) THEN acc
    ELSE ForResults(IF results[i].none THEN acc
                    ELSE ForBoxes(acc, results[i].boxes, 1),
                    results, i + 1)

\* What detect_objects returns: (dict, None) or (None, message).
NoDetection ==
    [total_objects |-> -1, objects_detected |-> <<>>, image_dimensions |-> <<>>]

\* YOLODetector.detect_objects(image_data), with `out` what the model does
detect_objects(d, image_data, out) ==
    IF ~d.model_loaded
    THEN [results |-> NoDetection, error |-> "YOLO model not loaded"]
    ELSE IF image_data.img = 0
    THEN [results |-> NoDetection, error |-> "Failed to decode image"]
    ELSE IF out.raises
    THEN [results |-> NoDetection, error |-> "Detection error: inference"]
    ELSE LET acc == ForResults([detections |-> <<>>, total_objects |-> 0],
                               out.results, 1)
         IN  [results |-> [total_objects |-> acc.total_objects,
                           objects_detected |-> acc.detections,
                           image_dimensions |-> ImageDimensions(image_data.img)],
              error |-> None]


\* ------------------------------------------------------------- responses
Endpoints == {"/yolo-detect", "/upload-image"}

\* A JSONResponse; fields a response does not carry keep these values.
NoResponse ==
    [status_code |-> 0, status |-> None, error |-> None, details |-> None,
     last_attempt |-> NoTime, size_bytes |-> -1,
     total_objects |-> -1, objects_detected |-> <<>>, dimensions |-> <<>>,
     filename |-> <<>>, saved_to |-> <<>>]

ErrorResponse(code, message) ==
    [NoResponse EXCEPT !.status_code = code, !.status = "error", !.error = message]

\* A request and its handler's locals.
NoRequest ==
    [endpoint |-> None, image_data |-> Body(0, <<>>, <<>>, 0),
     frame |-> NoFrame, entry_loaded |-> "unset", reload_success |-> "unset",
     detect_called |-> FALSE, raw |-> Output(FALSE, <<>>),
     saved_at |-> NoTime, response |-> NoResponse]

\* yolo_detect_objects: the 503 answer after a failed reload
ModelNotLoadedResponse(d) ==
    [ErrorResponse(503, "YOLO model not loaded") EXCEPT
        !.details = IF d.load_error # None THEN d.load_error
                    ELSE "Unknown model loading error",
        !.last_attempt = d.last_load_attempt]

\* yolo_detect_objects from `image_data = await request.body()` to its return:
\* the answer, whether detect_objects was called, and what the model gave.
YoloAnswer(resp, called, out) ==
    [response |-> resp, detect_called |-> called, raw |-> out]

\* (faulty variant: detect_objects runs before the body is validated)
yolo_detect_body_detect_first(image_data, d, out) ==
    LET got == detect_objects(d, image_data, out)
    IN  IF TooSmall(image_data)
        THEN YoloAnswer(ErrorResponse(400, "Image too small - minimum 1KB required"),
                        TRUE, out)
        ELSE IF TooLarge(image_data, MaxDetectSize)
        THEN YoloAnswer(ErrorResponse(413, "Image too large - maximum 10MB allowed"),
                        TRUE, out)
        ELSE IF ~IsJpeg(image_data)
        THEN YoloAnswer(ErrorResponse(400, "Invalid JPEG format"), TRUE, out)
        ELSE IF got.error # None
        THEN YoloAnswer(ErrorResponse(500, got.error), TRUE, out)
        ELSE YoloAnswer(
                [NoResponse EXCEPT
                    !.status_code = 200, !.status = "success",
                    !.size_bytes = image_data.len,
                    !.dimensions = got.results.image_dimensions,
                    !.total_objects = got.results.total_objects,
                    !.objects_detected = got.results.objects_detected],
                TRUE, out)
\* yolo_detect_objects, lines 73-151
yolo_detect_body(image_data, d, out) ==
    IF TooSmall(image_data)
    THEN YoloAnswer(ErrorResponse(400, "Image too small - minimum 1KB required"),
                    FALSE, Output(FALSE, <<>>))
    ELSE IF TooLarge(image_data, MaxDetectSize)
    THEN YoloAnswer(ErrorResponse(413, "Image too large - maximum 10MB allowed"),
                    FALSE, Output(FALSE, <<>>))
    ELSE IF ~IsJpeg(image_data)
    THEN YoloAnswer(ErrorResponse(400, "Invalid JPEG format"),
                    FALSE, Output(FALSE, <<>>))
    ELSE LET got == detect_objects(d, image_data, out)
         IN  IF got.error # None
             THEN YoloAnswer(ErrorResponse(500, got.error), TRUE, out)
             ELSE YoloAnswer(
                     [NoResponse EXCEPT
                         !.status_code = 200, !.status = "success",
                         !.size_bytes = image_data.len,
                         !.dimensions = got.results.image_dimensions,
                         !.total_objects = got.results.total_objects,
                         !.objects_detected = got.results.objects_detected],
                     TRUE, out)

\* datetime.now().strftime("%Y%m%d_%H%M%S"): the time cut to whole seconds
Timestamp(t) == t \div TicksPerSecond

\* f"esp32_image_{timestamp}.jpg"
Filename(t) == <<"esp32_image_", Timestamp(t), ".jpg">>

\* os.path.join("received_images", filename)
FilePath(filename) == <<"received_images", filename>>

\* upload_image_direct from `image_data = await request.body()` to its return:
\* the answer and whether the body was written to file_path.
upload_image_body(image_data, t, disk_ok) ==
    IF TooSmall(image_data)
    THEN [response |-> ErrorResponse(400, "Image too small - minimum 1KB required"),
          written |-> FALSE]
    ELSE IF TooLarge(image_data, MaxUploadSize)
    THEN [response |-> ErrorResponse(413, "Image too large - maximum 5MB allowed"),
          written |-> FALSE]
    ELSE IF ~IsJpeg(image_data)
    THEN [response |-> ErrorResponse(400, "Invalid JPEG format"), written |-> FALSE]
    ELSE IF ~disk_ok
    THEN [response |-> ErrorResponse(500, "Save error: OSError"), written |-> FALSE]
    ELSE [response |->
            [NoResponse EXCEPT
                !.status_code = 200, !.status = "success",
                !.size_bytes = image_data.len,
                !.filename = Filename(t),
                !.saved_to = FilePath(Filename(t))],
          written |-> TRUE]

\* with open(file_path, 'wb') as f: f.write(image_data)
WriteFile(dir, path, data) ==
    [f \in DOMAIN dir \cup {path} |-> IF f = path THEN data ELSE dir[f]]


\* --------------------------------------------------------------- start-up
Init ==
    /\ yolo_detector = NewDetector
    /\ best_pt \in FileKinds
    /\ now = 0
    /\ received_images = <<>>
    /\ pc = [p \in Proc |-> IF p = Main THEN "boot" ELSE "idle"]
    /\ req = [p \in Proc |-> NoRequest]
    /\ loop = None

\* python start_server.py: imports app and runs uvicorn; initialize_yolo is
\* never called, so the first /yolo-detect request loads the model.
StartServer ==
    /\ pc[Main] = "boot"
    /\ pc' = [pc EXCEPT ![Main] = "serving"]
    /\ UNCHANGED <<yolo_detector, best_pt, now, received_images, req, loop>>

\* python main.py: initialize_yolo() calls yolo_detector.load_model()
InitializeYolo ==
    /\ pc[Main] = "boot"
    /\ pc' = [pc EXCEPT ![Main] = "l_stamp"]
    /\ UNCHANGED <<yolo_detector, best_pt, now, received_images, req, loop>>

\* python main.py: whatever initialize_yolo returned, uvicorn.run(app, ...)
RunServer ==
    /\ pc[Main] = "returned"
    /\ pc' = [pc EXCEPT ![Main] = "serving"]
    /\ UNCHANGED <<yolo_detector, best_pt, now, received_images, req, loop>>

\* A program that imports the module calls yolo_detector.load_model(), the
\* first time or again after an earlier call has returned.
CallLoadModel ==
    /\ pc[Main] \in {"boot", "returned"}
    /\ pc' = [pc EXCEPT ![Main] = "l_stamp"]
    /\ req' = [req EXCEPT ![Main].frame = NoFrame]
    /\ UNCHANGED <<yolo_detector, best_pt, now, received_images, loop>>

\* --------------------------------------------------------------- handlers
\* A client posts a body to an endpoint; the framework creates the handler
\* coroutine in a free slot (one that is idle or has answered).
Arrive(h, endpoints, bodies) ==
    /\ pc[Main] = "serving"
    /\ pc[h] \in {"idle", "done"}
    /\ \E ep \in endpoints, b \in bodies :
          req' = [req EXCEPT ![h] = [NoRequest EXCEPT !.endpoint = ep,
                                                      !.image_data = b]]
    /\ pc' = [pc EXCEPT ![h] = "start"]
    /\ UNCHANGED <<yolo_detector, best_pt, now, received_images, loop>>

\* (faulty variant: the handler reloads without looking at model_loaded)
YoloEnterAlwaysReloads(h) ==
    /\ pc[h] = "start"
    /\ req[h].endpoint = "/yolo-detect"
    /\ CanRun(h)
    /\ req' = [req EXCEPT ![h].entry_loaded = Bool(yolo_detector.model_loaded)]
    /\ Goto(h, "l_stamp")
    /\ UNCHANGED <<yolo_detector, best_pt, now, received_images>>

\* yolo_detect_objects: if not yolo_detector.model_loaded: ... load_model()
YoloEnter(h) ==
    /\ pc[h] = "start"
    /\ req[h].endpoint = "/yolo-detect"
    /\ CanRun(h)
    /\ req' = [req EXCEPT ![h].entry_loaded = Bool(yolo_detector.model_loaded)]
    /\ IF yolo_detector.model_loaded
       THEN Goto(h, "await_body")
       ELSE Goto(h, "l_stamp")
    /\ UNCHANGED <<yolo_detector, best_pt, now, received_images>>

\* yolo_detect_objects: reload_success = ...; if not reload_success: 503
YoloReloaded(h) ==
    /\ pc[h] = "returned"
    /\ CanRun(h)
    /\ IF req[h].frame.ret = "False"
       THEN /\ req' = [req EXCEPT
                         ![h].reload_success = "False",
                         ![h].response = ModelNotLoadedResponse(yolo_detector)]
            /\ Goto(h, "done")
       ELSE /\ req' = [req EXCEPT ![h].reload_success = "True"]
            /\ Goto(h, "await_body")
    /\ UNCHANGED <<yolo_detector, best_pt, now, received_images>>

\* yolo_detect_objects resumed with the body: validation, detection, answer
YoloFinish(h, outputs) ==
    /\ pc[h] = "await_body"
    /\ req[h].endpoint = "/yolo-detect"
    /\ CanRun(h)
    /\ \E out \in outputs :
          LET a == yolo_detect_body(req[h].image_data, yolo_detector, out)
          IN  req' = [req EXCEPT ![h].response = a.response,
                                 ![h].detect_called = a.detect_called,
                                 ![h].raw = a.raw]
    /\ Goto(h, "done")
    /\ UNCHANGED <<yolo_detector, best_pt, now, received_images>>

\* upload_image_direct up to `await request.body()`
UploadEnter(h) ==
    /\ pc[h] = "start"
    /\ req[h].endpoint = "/upload-image"
    /\ CanRun(h)
    /\ Goto(h, "await_body")
    /\ UNCHANGED <<yolo_detector, best_pt, now, received_images, req>>

\* upload_image_direct resumed with the body: validation, save, answer
UploadFinish(h) ==
    /\ pc[h] = "await_body"
    /\ req[h].endpoint = "/upload-image"
    /\ CanRun(h)
    /\ \E disk_ok \in BOOLEAN :
          LET a == upload_image_body(req[h].image_data, now, disk_ok)
          IN  /\ req' = [req EXCEPT
                            ![h].response = a.response,
                            ![h].saved_at = IF a.written THEN now ELSE NoTime]
              /\ received_images' =
                    IF a.written
                    THEN WriteFile(received_images, a.response.saved_to,
                                   req[h].image_data)
                    ELSE received_images
    /\ Goto(h, "done")
    /\ UNCHANGED <<yolo_detector, best_pt, now>>

\* ----------------------------------------------------------------- specs
\* The service answering one request at a time, on either endpoint, with
\* every body and every model output.
Next ==
    \/ StartServer
    \/ InitializeYolo
    \/ RunServer
    \/ \E p \in {Main, "r1"} : LoadStep(p)
    \/ Arrive("r1", Endpoints, Bodies)
    \/ YoloEnter("r1")
    \/ YoloReloaded("r1")
    \/ YoloFinish("r1", ModelOutputs)
    \/ UploadEnter("r1")
    \/ UploadFinish("r1")
    \/ Tick
    \/ FileChange

Spec == Init /\ [][Next]_vars

\* The bodies and model outputs of the requests sent concurrently.
ConcurrentBodies == { b \in Bodies : b.len <= MinImageSize /\ b.img = 1 }
ConcurrentOutputs == { o \in ModelOutputs : Len(o.results) <= 1 }

\* The service with two /yolo-detect requests in flight at once.
NextConcurrent ==
    \/ StartServer
    \/ InitializeYolo
    \/ RunServer
    \/ \E p \in Proc : LoadStep(p)
    \/ \E h \in Req : Arrive(h, {"/yolo-detect"}, ConcurrentBodies)
    \/ \E h \in Req : YoloEnter(h)
    \/ \E h \in Req : YoloReloaded(h)
    \/ \E h \in Req : YoloFinish(h, ConcurrentOutputs)
    \/ Tick
    \/ FileChange

SpecConcurrent == Init /\ [][NextConcurrent]_vars

\* The service with two /upload-image requests in flight at once.
NextUploads ==
    \/ StartServer
    \/ \E h \in Req : Arrive(h, {"/upload-image"}, Bodies)
    \/ \E h \in Req : UploadEnter(h)
    \/ \E h \in Req : UploadFinish(h)
    \/ Tick

SpecUploads == Init /\ [][NextUploads]_vars

\* The detector used as a module: load_model called any number of times.
NextDetector ==
    \/ CallLoadModel
    \/ LoadStep(Main)
    \/ Tick
    \/ FileChange

SpecDetector == Init /\ [][NextDetector]_vars


\* ================================================================ claims
Answered(h) == pc[h] = "done"

TooSmallMessage == "Image too small - minimum 1KB required"
InvalidJpegMessage == "Invalid JPEG format"
PreValidationMessages ==
    {TooSmallMessage, InvalidJpegMessage, "Image too large - maximum 10MB allowed"}

Is(h, code, message) ==
    /\ req[h].response.status_code = code
    /\ req[h].response.error = message

ReloadFailed(h) ==
    req[h].endpoint = "/yolo-detect" /\ req[h].reload_success = "False"

SizeLimit(endpoint) ==
    IF endpoint = "/yolo-detect" THEN MaxDetectSize ELSE MaxUploadSize

NotBracketed(b) == b.head # SOI \/ b.tail # EOI

\* C1 as stated: every body shorter than 1000 bytes, on either endpoint and in
\* every server state, is answered 400 "Image too small".
C1_TooSmallAlways400 ==
    \A h \in Req :
        Answered(h) /\ req[h].image_data.len < 1000
            => Is(h, 400, TooSmallMessage)

\* C1 amended: a body shorter than 1000 bytes is answered 400 "Image too small"
\* by /upload-image always, and by /yolo-detect when the model was loaded on
\* arrival or the lazy load succeeded; when the lazy load failed /yolo-detect
\* answers 503 "YOLO model not loaded" without having read the body.
C1_TooSmallUnlessReloadFailed ==
    \A h \in Req :
        Answered(h) /\ req[h].image_data.len < 1000
            => IF ReloadFailed(h)
               THEN Is(h, 503, "YOLO model not loaded")
               ELSE Is(h, 400, TooSmallMessage)

C1_Witness ==
    \E h \in Req :
        /\ Answered(h)
        /\ req[h].image_data.len = 999
        /\ req[h].image_data.head = SOI
        /\ req[h].endpoint = "/yolo-detect"
        /\ req[h].reload_success = "True"
        /\ Is(h, 400, TooSmallMessage)

\* C2 as stated: every body that does not start with FF D8 or does not end
\* with FF D9 is answered 400 "Invalid JPEG format", whatever its length.
C2_NotJpegAlways400 ==
    \A h \in Req :
        Answered(h) /\ NotBracketed(req[h].image_data)
            => Is(h, 400, InvalidJpegMessage)

\* C2 amended: a body of at least 1000 bytes and at most the endpoint's limit
\* (10 MiB for /yolo-detect, 5 MiB for /upload-image) that lacks either marker
\* is answered 400 "Invalid JPEG format", on /yolo-detect provided the model
\* was loaded on arrival or the lazy load succeeded.
C2_NotJpegWithinLimits400 ==
    \A h \in Req :
        /\ Answered(h)
        /\ NotBracketed(req[h].image_data)
        /\ req[h].image_data.len >= 1000
        /\ req[h].image_data.len <= SizeLimit(req[h].endpoint)
        /\ ~ReloadFailed(h)
        => Is(h, 400, InvalidJpegMessage)

C2_Witness ==
    \E h \in Req :
        /\ Answered(h)
        /\ req[h].image_data.head # SOI
        /\ req[h].image_data.tail = EOI
        /\ req[h].image_data.len >= 1000
        /\ Is(h, 400, InvalidJpegMessage)

\* C3: a /yolo-detect request that finds the model not loaded, and whose load
\* attempt finds no best.pt, is answered 503 with an error string, the load
\* error as details and a last_attempt timestamp; detect_objects is not called.
C3_MissingModel503 ==
    \A h \in Req :
        /\ Answered(h)
        /\ req[h].endpoint = "/yolo-detect"
        /\ req[h].entry_loaded = "False"
        /\ req[h].frame.exists = "False"
        => /\ req[h].reload_success = "False"
           /\ req[h].response.status_code = 503
           /\ req[h].response.status = "error"
           /\ req[h].response.error # None
           /\ req[h].response.details # None
           /\ req[h].response.last_attempt # NoTime
           /\ ~req[h].detect_called

C3_Witness ==
    \E h \in Req :
        /\ Answered(h)
        /\ req[h].entry_loaded = "False"
        /\ req[h].frame.exists = "False"
        /\ req[h].response.status_code = 503
        /\ yolo_detector.model = None

\* C4 as stated: when a load_model call has returned, the detector shows that
\* call's outcome: True with model_loaded set and load_error cleared, False
\* with model_loaded unset and load_error set; last_load_attempt set either way.
C4_StatusReflectsLastLoad ==
    pc[Main] = "returned" =>
        /\ yolo_detector.last_load_attempt # NoTime
        /\ req[Main].frame.ret = "True" =>
              yolo_detector.model_loaded /\ yolo_detector.load_error = None
        /\ req[Main].frame.ret = "False" =>
              ~yolo_detector.model_loaded /\ yolo_detector.load_error # None

SavedOk(h) ==
    /\ Answered(h)
    /\ req[h].endpoint = "/upload-image"
    /\ req[h].response.status_code = 200

\* C5 as stated: two successful uploads stamped in the same second are stored
\* under distinct file names.
C5_SameSecondDistinctNames ==
    \A h1, h2 \in Req :
        /\ h1 # h2
        /\ SavedOk(h1) /\ SavedOk(h2)
        /\ Timestamp(req[h1].saved_at) = Timestamp(req[h2].saved_at)
        => req[h1].response.saved_to # req[h2].response.saved_to

\* C6 as stated: the file at a successful upload's saved_to holds the bytes of
\* that request, also after further uploads.
C6_SavedFileRoundTrip ==
    \A h \in Req :
        SavedOk(h) =>
            /\ req[h].response.saved_to \in DOMAIN received_images
            /\ received_images[req[h].response.saved_to] = req[h].image_data


\* The boxes a model output holds, in the order the model emits them.
RECURSIVE EmittedBoxes(_)
EmittedBoxes(results) ==
    IF results = <<>> THEN <<>>
    ELSE (IF Head(results).none THEN <<>> ELSE Head(results).boxes)
         \o EmittedBoxes(Tail(results))

Detected(h) ==
    /\ Answered(h)
    /\ req[h].endpoint = "/yolo-detect"
    /\ req[h].response.status_code = 200

\* C7: a detection in which the model emits N boxes is answered 200 "success"
\* with total_objects = N = the length of objects_detected; when the model ran
\* on a decoded image and emitted nothing, that is still a 200 with an empty list.
C7_TotalIsBoxCount ==
    \A h \in Req :
        LET n == Len(EmittedBoxes(req[h].raw.results))
            ran == /\ Answered(h)
                   /\ req[h].detect_called
                   /\ req[h].image_data.img # 0
                   /\ ~req[h].raw.raises
        IN  /\ Detected(h) =>
                /\ ran
                /\ req[h].response.status = "success"
                /\ req[h].response.total_objects = n
                /\ Len(req[h].response.objects_detected) = n
            /\ ran => Detected(h)
            /\ ran /\ n = 0 =>
                /\ req[h].response.error = None
                /\ req[h].response.total_objects = 0
                /\ req[h].response.objects_detected = <<>>

C7_Witness ==
    \E h \in Req :
        /\ Detected(h)
        /\ Len(req[h].raw.results) = 3
        /\ req[h].response.total_objects = 1
        /\ Len(req[h].response.objects_detected) = 1

Rejected(h) ==
    /\ Answered(h)
    /\ req[h].endpoint = "/yolo-detect"
    /\ req[h].response.error \in PreValidationMessages

\* C8 as stated: a /yolo-detect request rejected by the size or marker checks
\* has triggered no load_model call (so no smoke test and no lifecycle change).
C8_RejectedNeverLoads ==
    \A h \in Req : Rejected(h) => req[h].reload_success = "unset"

\* C8 amended: a /yolo-detect request rejected by the size or marker checks has
\* not reached detect_objects (no decode, no detection inference); it has
\* triggered no load when the model was loaded on its arrival, and otherwise
\* exactly the lazy load, which ran first and succeeded.
C8_RejectedBeforeDetectAfterLoad ==
    \A h \in Req :
        Rejected(h) =>
            /\ ~req[h].detect_called
            /\ req[h].entry_loaded = "True" => req[h].reload_success = "unset"
            /\ req[h].entry_loaded = "False" => req[h].reload_success = "True"

C8_Witness ==
    \E h \in Req :
        /\ Rejected(h)
        /\ req[h].entry_loaded = "False"
        /\ req[h].reload_success = "True"
        /\ yolo_detector.model_loaded

Abs(x) == IF x < 0 THEN -x ELSE x

\* C9 as stated: in every detection returned, width = x2 - x1 and
\* height = y2 - y1 over the reported (rounded) corners.
C9_ExtentIsCornerDifference ==
    \A h \in Req :
        Detected(h) =>
            \A i \in DOMAIN req[h].response.objects_detected :
                LET b == req[h].response.objects_detected[i].bounding_box
                IN  b.width = b.x2 - b.x1 /\ b.height = b.y2 - b.y1

\* C9 amended: width is round(x2 - x1) and height round(y2 - y1) over the
\* corners as the model emitted them, so each is within 1 of the difference
\* of the reported corners.
C9_ExtentIsRoundedDifference ==
    \A h \in Req :
        Detected(h) =>
            \A i \in DOMAIN req[h].response.objects_detected :
                LET b == req[h].response.objects_detected[i].bounding_box
                    c == EmittedBoxes(req[h].raw.results)[i].xyxy
                IN  /\ b.width = RoundHalfEven(c[3] - c[1], 4)
                    /\ b.height = RoundHalfEven(c[4] - c[2], 4)
                    /\ Abs(b.width - (b.x2 - b.x1)) <= 1
                    /\ Abs(b.height - (b.y2 - b.y1)) <= 1

C9_Witness ==
    \E h \in Req :
        /\ Detected(h)
        /\ \E i \in DOMAIN req[h].response.objects_detected :
              LET b == req[h].response.objects_detected[i].bounding_box
              IN  b.width = b.x2 - b.x1 - 1 /\ b.height = b.y2 - b.y1

\* What a handler may rely on when it reads the detector between load_model
\* calls: a model marked loaded has passed its test and left no error behind.
Settled(d) == d.model_loaded => d.model = "good" /\ d.load_error = None

\* C10: load_model calls never interleave.  While one handler is inside
\* load_model it holds the event loop, every other handler is suspended
\* outside load_model, and a handler that can run sees a settled detector.
C10_LoadsSerialized ==
    \A h \in Req :
        /\ pc[h] \in LoadPcs =>
              /\ loop = h
              /\ \A q \in Req \ {h} :
                    pc[q] \in {"idle", "start", "await_body", "done"}
        /\ CanRun(h) /\ pc[h] \notin LoadPcs => Settled(yolo_detector)

C10_Witness ==
    \E h1, h2 \in Req :
        /\ h1 # h2
        /\ pc[h1] = "l_clear"
        /\ ~Settled(yolo_detector)
        /\ pc[h2] = "start"
        /\ req[h2].endpoint = "/yolo-detect"


\* One step of the service taken with model_loaded already true.
StaysLoaded ==
    yolo_detector.model_loaded =>
        /\ yolo_detector.model_loaded'
        /\ \A h \in Req :
              /\ pc'[h] = "l_stamp" => pc[h] = "l_stamp"
              /\ pc'[h] = "done" /\ pc[h] # "done" =>
                    req'[h].response.status_code # 503

\* C11: once load_model has set model_loaded, every later step of the service
\* leaves it true, no handler enters load_model again and no handler answers
\* 503, whatever becomes of best.pt.
C11_LoadedIsMonotonic == [][StaysLoaded]_vars

C11_Witness ==
    \E h1, h2 \in Req :
        /\ h1 # h2
        /\ yolo_detector.model_loaded
        /\ best_pt = "absent"
        /\ req[h1].reload_success = "True"
        /\ Answered(h2)
        /\ req[h2].entry_loaded = "True"
        /\ req[h2].reload_success = "unset"
        /\ req[h2].response.status_code = 200
        /\ yolo_detector.last_load_attempt < now

=============================================================================
